---- MODULE Spec2Model ----
(***************************************************************************)
(* A model of the DrumPlayer of src/drum_player.py: the control surface    *)
(* (play_score, stop, is_playing, toggle_loop, toggle_variation), the      *)
(* dispatch thread (_play_score_task) and the dispatcher                   *)
(* (_play_note_group), statement by statement.                             *)
(*                                                                         *)
(* Time is in milliseconds.  The clock `now` models time.perf_counter();   *)
(* it advances when a time.sleep() returns, at its deadline or LateMs      *)
(* later (an oversleep: scheduling jitter or load).  Statements between    *)
(* sleeps take no time.                                                    *)
(***************************************************************************)
EXTENDS Integers, Sequences, FiniteSets, TLC

---------------------------------------------------------------------------
(* Bounds of the model *)

\* Thread objects that play_score may create in one run.
MaxThreads == 2
\* Largest value loop_count may take (cycles 0..MaxLoops are played).
MaxLoops == 1
\* Largest value loop_count may take by the end of a cycle that selected no
\* event (such cycles take no time but the pause of line 112).
MaxEmptyLoops == 2
\* Number of sleeps that may return late while a session is alive.
MaxLate == 1
\* How late (ms) a late sleep returns.
LateMs == 600
\* Probabilities and random draws are multiples of 1/ProbScale.
ProbScale == 2

(* Constants of the program *)

PreRollMs == 3000
HoldMs == 50
PauseMs == 1
ActuatorPauseMs == 10
DefaultBpm == 120
MeasureMsTimesBpm == 240000
FallbackMeasures == 4
MantissaBits == 52

---------------------------------------------------------------------------
(* Inputs *)

\* The key mapping the player is constructed with ("cowbell" has no entry).
key_mapping == [bass_drum |-> "a", snare |-> "s", close_hi_hat |-> "d"]

ScoreE2E ==
  [bpm |-> 120,
   notes |-> << [time |-> 0, note |-> <<"bass_drum">>],
                [time |-> 500, note |-> <<"snare">>] >>]

ScoreUnsorted ==
  [bpm |-> 120,
   notes |-> << [time |-> 2500, note |-> <<"snare", "cowbell">>,
                 probability |-> ProbScale],
                [time |-> 0, note |-> <<"bass_drum">>] >>]

ScoreEmpty == [bpm |-> 96, notes |-> << >>]

ScoreNoNotes == [title |-> "untitled"]

ScoreNever ==
  [bpm |-> 120,
   notes |-> << [time |-> 0, note |-> <<"snare">>, probability |-> 0] >>]

ScoreBoundary ==
  [bpm |-> 21,
   notes |-> << [time |-> 0, note |-> <<"bass_drum">>],
                [time |-> 80000, note |-> <<"snare">>] >>]

Scores ==
  << ScoreE2E, ScoreUnsorted, ScoreEmpty, ScoreNoNotes, ScoreNever,
     ScoreBoundary >>

ScoreIds == 1..Len(Scores)

\* Scores that exercise the dispatcher: a group of three mapped keys; groups
\* with names that have no mapping (none mapped, some mapped) followed by a
\* later event; two notes at one offset, as a hand-written score file may
\* hold them.
ScoreChord ==
  [bpm |-> 120,
   notes |-> << [time |-> 0,
                 note |-> <<"snare", "close_hi_hat", "bass_drum">>] >>]

ScoreUnmapped ==
  [bpm |-> 120,
   notes |-> << [time |-> 0, note |-> <<"cowbell">>],
                [time |-> 250, note |-> <<"snare", "cowbell", "bass_drum">>],
                [time |-> 500, note |-> <<"close_hi_hat">>] >>]

ScoreDuplicate ==
  [bpm |-> 120,
   notes |-> << [time |-> 0, note |-> <<"snare">>],
                [time |-> 0, note |-> <<"snare", "close_hi_hat">>] >>]

DispatchScores == << ScoreChord, ScoreUnmapped, ScoreDuplicate >>

\* Every score of the model, by the id a caller passes to play_score.
AllScores == Scores \o DispatchScores

DispatchIds == (Len(Scores) + 1)..Len(AllScores)

\* random.random() ranges over [0.0, 1.0): the draws k/ProbScale, k < ProbScale.
Draws == 0..(ProbScale - 1)

ThreadIds == 1..MaxThreads

---------------------------------------------------------------------------
(* Pure helpers *)

\* dict.get(k, default)
Get(d, k, default) == IF k \in DOMAIN d THEN d[k] ELSE default

RECURSIVE InsertByTime(_, _)
InsertByTime(s, x) ==
  IF s = << >> THEN <<x>>
  ELSE IF Head(s).time <= x.time
       THEN <<Head(s)>> \o InsertByTime(Tail(s), x)
       ELSE <<x>> \o s

RECURSIVE SortFrom(_, _)
SortFrom(acc, rest) ==
  IF rest = << >> THEN acc
  ELSE SortFrom(InsertByTime(acc, Head(rest)), Tail(rest))

\* sorted(seq, key=lambda x: x['time']): stable, ascending.
Unsorted(seq) == seq
sorted(seq) == SortFrom(<< >>, seq)

RECURSIVE Pow2(_)
Pow2(n) == IF n <= 0 THEN 1 ELSE 2 * Pow2(n - 1)

RECURSIVE Pow2Mod(_, _)
Pow2Mod(n, m) == IF n <= 0 THEN 1 % m ELSE (2 * Pow2Mod(n - 1, m)) % m

\* The binary exponent of x/y: the largest a >= 0 with 2^a * y <= x (x >= y).
RECURSIVE Exponent(_, _, _)
Exponent(x, y, a) ==
  IF 2 * Pow2(a) * y <= x THEN Exponent(x, y, a + 1) ELSE a

\* The largest p >= -1 with 2^p < k (k >= 1): the doubles just below k are
\* spaced 2^(p - MantissaBits) apart.
RECURSIVE BinadeBelow(_, _)
BinadeBelow(k, p) == IF Pow2(p + 1) < k THEN BinadeBelow(k, p + 1) ELSE p


\* math.floor(last / measure_duration_ms) where measure_duration_ms is the
\* double nearest to 240000 / bpm and the quotient is rounded to the nearest
\* double (IEEE 754, round half to even), for integers 0 <= last and
\* 1 <= bpm <= 240000.  With k the exact quotient last*bpm/240000:
\*  - when the exact quotient is no integer it lies at least 1/240000 from
\*    one, far more than the rounding errors, and the floor is exact;
\*  - when it is the integer k >= 1, the divisor carries the rounding error
\*    of 240000/bpm.  With a the binary exponent of 240000/bpm and
\*    r = (240000 * 2^(52-a)) mod bpm, the divisor is exact (r = 0) or rounded
\*    down (2r < bpm), and the quotient is >= k; or it is rounded up by
\*    d = bpm - r parts in bpm * 2^(52-a), the real quotient is
\*    k - k*d/(240000 * 2^(52-a) + d), and it rounds back to k only when that
\*    distance is at most half the spacing 2^(p-52) of the doubles below k.
FloatFloorDiv(last, bpm) ==
  LET k == (last * bpm) \div MeasureMsTimesBpm
  IN IF (last * bpm) % MeasureMsTimesBpm # 0 \/ k = 0 THEN k
     ELSE
       LET a == Exponent(MeasureMsTimesBpm, bpm, 0)
           r == ((MeasureMsTimesBpm % bpm) * Pow2Mod(MantissaBits - a, bpm)) % bpm
       IN IF 2 * r <= bpm THEN k
          ELSE
            LET d == bpm - r
                p == BinadeBelow(k, -1)
                s == p - a - 1
                roundsUp == IF s >= 0
                            THEN k * d <= MeasureMsTimesBpm * Pow2(s)
                            ELSE k * d * Pow2(-s) <= MeasureMsTimesBpm
            IN IF roundsUp THEN k ELSE k - 1

\* num_measures = math.floor(last_note_time_ms / measure_duration_ms) + 1
NumMeasures(last, bpm) == FloatFloorDiv(last, bpm) + 1

\* (measure_duration_ms * 4) / 1000.0, in ms.
FallbackOmitted(bpm) == 0
FallbackDuration(bpm) == (FallbackMeasures * MeasureMsTimesBpm) \div bpm

\* total_loop_duration_s of lines 64-76, in ms, for the sorted notes.  The
\* scores of the model have durations that are whole milliseconds, so the
\* integer division is exact.
TotalLoopDuration(notes, bpm) ==
  LET total == IF notes # << >>
               THEN (NumMeasures(notes[Len(notes)].time, bpm) * MeasureMsTimesBpm)
                      \div bpm
               ELSE 0
  IN IF total <= 0 THEN FallbackDuration(bpm) ELSE total

\* random.random() <= note.get('probability', 1.0), for the draw r/ProbScale.
ChosenInverted(r, note) == r >= Get(note, "probability", ProbScale)
Chosen(r, note) == r <= Get(note, "probability", ProbScale)

\* [note for note in notes if random.random() <= ...], one draw per note.
RECURSIVE Filter(_, _, _)
Filter(notes, draws, i) ==
  IF i > Len(notes) THEN << >>
  ELSE (IF Chosen(draws[i], notes[i]) THEN <<notes[i]>> ELSE << >>)
         \o Filter(notes, draws, i + 1)

\* keys_to_press of _play_note_group: the mapped keys, in the order of the
\* group's list; a name with no (or an empty) mapping is skipped.
RECURSIVE KeysToPress(_)
KeysToPressOrNone(names) ==
  IF \A j \in DOMAIN names : names[j] \in DOMAIN key_mapping
  THEN [j \in DOMAIN names |-> key_mapping[names[j]]]
  ELSE << >>
KeysToPress(names) ==
  IF names = << >> THEN << >>
  ELSE (IF Head(names) \in DOMAIN key_mapping /\ key_mapping[Head(names)] # ""
        THEN <<key_mapping[Head(names)]>> ELSE << >>)
         \o KeysToPress(Tail(names))

\* The names of a group for which line 39 prints its warning, in order.
RECURSIVE Unmapped(_)
Unmapped(names) ==
  IF names = << >> THEN << >>
  ELSE (IF Head(names) \in DOMAIN key_mapping /\ key_mapping[Head(names)] # ""
        THEN << >> ELSE <<Head(names)>>)
         \o Unmapped(Tail(names))

Range(s) == {s[i] : i \in DOMAIN s}

Max(a, b) == IF a >= b THEN a ELSE b

---------------------------------------------------------------------------
(* State *)

VARIABLES
  stop_event,         \* self.stop_event (threading.Event): is it set
  playing_thread,     \* self.playing_thread: a thread id, or 0 for None
  loop_enabled,       \* self.loop_enabled
  variation_enabled,  \* self.variation_enabled
  threads,            \* the Thread objects: position and locals of each
  ctl,                \* the caller contexts: position inside a call, result
  callers,            \* the caller contexts that exist
  library,            \* the scores a caller may pass to play_score
  limit,              \* the Thread objects that may be created in the run
  down,               \* the keys the actuator holds down
  now,                \* time.perf_counter(), ms
  lates               \* sleeps that returned late so far

vars ==
  << stop_event, playing_thread, loop_enabled, variation_enabled, threads,
     ctl, callers, library, limit, down, now, lates >>

Contexts == {"gui", "hotkey"}

\* What each context calls: the GUI thread the whole control surface, the
\* second context play_score only.
Calls(c) ==
  IF c = "gui"
  THEN {"play_score", "stop", "toggle_loop", "toggle_variation"}
  ELSE {"play_score"}

\* A Thread object before threading.Thread(...) creates it, and the locals
\* of _play_score_task before they are assigned.  Three fields record what
\* the thread did: `log` the calls of _play_note_group (line 105) of the
\* cycle in hand, `calls` the actuator calls and `warned` the warnings of the
\* latest of them; `failed` tells that an actuator call of the thread raised.
Unborn ==
  [pc |-> "unborn", sid |-> 0, begin |-> 0, wake |-> 0, notes |-> << >>,
   num_measures |-> 0, total_loop_duration |-> 0,
   performance_start_time |-> 0, loop_count |-> 0, varied |-> FALSE,
   notes_this_loop |-> << >>,
   i |-> 0, target_absolute_time |-> 0, keys_to_press |-> << >>, k |-> 0,
   outcome |-> "none",
   log |-> << >>, calls |-> << >>, warned |-> << >>, failed |-> FALSE]

\* A context outside any call of the player.
Outside ==
  [pc |-> "idle", op |-> "none", arg |-> 0, res |-> FALSE, jt |-> 0,
   ret |-> "none"]

\* Thread.is_alive(): started and not yet terminated.
is_alive(t) == threads[t].pc \notin {"unborn", "created", "dead"}

\* DrumPlayer.is_playing(), evaluated in one state.
is_playing ==
  playing_thread # 0 /\ is_alive(playing_thread)

Alive == {t \in ThreadIds : is_alive(t)}

\* Threads created so far, and calls of play_score that may still create one.
Created == {t \in ThreadIds : threads[t].pc # "unborn"}
Creating ==
  {c \in callers : ctl[c].op = "play_score" /\ ctl[c].pc # "idle"
                     /\ ctl[c].pc # "ps_start"}

InitWith(cs, lib, n) ==
  /\ stop_event = FALSE
  /\ playing_thread = 0
  /\ loop_enabled = FALSE
  /\ variation_enabled = FALSE
  /\ threads = [t \in ThreadIds |-> Unborn]
  /\ ctl = [c \in Contexts |-> Outside]
  /\ callers = cs
  /\ library = lib
  /\ limit = n
  /\ down = {}
  /\ now = 0
  /\ lates = 0

\* One control context: the GUI thread, on which every slot runs.
Init == InitWith({"gui"}, ScoreIds, MaxThreads)

\* Two contexts calling the player concurrently, with the empty score to
\* play and one Thread object for each to create.
InitMulti == InitWith(Contexts, {3}, Cardinality(Contexts))

---------------------------------------------------------------------------
(* Sleeping *)

\* The instants at which a sleep with deadline `wake` may return.
WakeTimes(wake) ==
  {Max(now, wake)} \cup
  (IF lates < MaxLate THEN {Max(now, wake) + LateMs} ELSE {})

\* time.sleep() of thread t returns at instant w and t goes on at `pc`.
Wake(t, w, pc) ==
  /\ now' = w
  /\ lates' = IF w > Max(now, threads[t].wake) THEN lates + 1 ELSE lates
  /\ threads' = [threads EXCEPT ![t].pc = pc]

---------------------------------------------------------------------------
(* The control surface, one statement per step *)

\* The call of context c returns: its locals are gone, its result is kept.
Return(c, ret, res) ==
  [ctl EXCEPT ![c] = [Outside EXCEPT !.op = ctl[c].op, !.ret = ret,
                                     !.res = res]]

Goto(c, pc) == [ctl EXCEPT ![c].pc = pc]

\* A context calls play_score(score_data) (line 121).
CallPlayScore(c, sid) ==
  /\ ctl[c].pc = "idle"
  /\ "play_score" \in Calls(c)
  /\ Cardinality(Created) + Cardinality(Creating) < limit
  /\ ctl' = [ctl EXCEPT ![c] = [Outside EXCEPT !.pc = "is_playing",
                                               !.op = "play_score",
                                               !.arg = sid]]
  /\ UNCHANGED << stop_event, playing_thread, loop_enabled, variation_enabled,
                  threads, callers, library, limit, down, now, lates >>

\* A context calls stop() (line 133).
CallStop(c) ==
  /\ ctl[c].pc = "idle"
  /\ "stop" \in Calls(c)
  /\ ctl' = [ctl EXCEPT ![c] = [Outside EXCEPT !.pc = "is_playing",
                                               !.op = "stop"]]
  /\ UNCHANGED << stop_event, playing_thread, loop_enabled, variation_enabled,
                  threads, callers, library, limit, down, now, lates >>

\* is_playing (line 150), left operand of `and`: self.playing_thread.
IsPlayingThread(c) ==
  /\ ctl[c].pc = "is_playing"
  /\ ctl' = IF playing_thread = 0
            THEN [ctl EXCEPT ![c].pc = "guard", ![c].res = FALSE]
            ELSE Goto(c, "is_alive")
  /\ UNCHANGED << stop_event, playing_thread, loop_enabled, variation_enabled,
                  threads, callers, library, limit, down, now, lates >>

\* is_playing (line 150), right operand: self.playing_thread.is_alive(); the
\* attribute is read again, and None has no is_alive (AttributeError).
IsPlayingAlive(c) ==
  /\ ctl[c].pc = "is_alive"
  /\ ctl' = IF playing_thread = 0
            THEN Return(c, "raised", FALSE)
            ELSE [ctl EXCEPT ![c].pc = "guard",
                             ![c].res = is_alive(playing_thread)]
  /\ UNCHANGED << stop_event, playing_thread, loop_enabled, variation_enabled,
                  threads, callers, library, limit, down, now, lates >>

\* play_score lines 125-127 with is_playing() true: print and return.
PlayScoreRejectClears(c) ==
  /\ ctl' = Return(c, "rejected", FALSE)
  /\ stop_event' = FALSE
  /\ UNCHANGED << playing_thread, loop_enabled, variation_enabled,
                  threads, callers, library, limit, down, now, lates >>

PlayScoreReject(c) ==
  /\ ctl' = Return(c, "rejected", FALSE)
  /\ UNCHANGED << stop_event, playing_thread, loop_enabled, variation_enabled,
                  threads, callers, library, limit, down, now, lates >>

\* play_score line 125: if self.is_playing(): ... return
PlayScoreGuard(c) ==
  /\ ctl[c].pc = "guard"
  /\ ctl[c].op = "play_score"
  /\ IF ctl[c].res
     THEN PlayScoreReject(c)
     ELSE /\ ctl' = Goto(c, "ps_clear")
          /\ UNCHANGED << stop_event, playing_thread, loop_enabled,
                          variation_enabled, threads, callers, library, limit, down,
                          now, lates >>

\* play_score line 129: self.stop_event.clear()
PlayScoreClearForgets(c) ==
  /\ ctl[c].pc = "ps_clear"
  /\ ctl' = Goto(c, "ps_create")
  /\ UNCHANGED << stop_event, playing_thread, loop_enabled, variation_enabled,
                  threads, callers, library, limit, down, now, lates >>

PlayScoreClear(c) ==
  /\ ctl[c].pc = "ps_clear"
  /\ stop_event' = FALSE
  /\ ctl' = Goto(c, "ps_create")
  /\ UNCHANGED << playing_thread, loop_enabled, variation_enabled, threads,
                  callers, library, limit, down, now, lates >>

\* play_score line 130: self.playing_thread = threading.Thread(...)
PlayScoreCreate(c) ==
  /\ ctl[c].pc = "ps_create"
  /\ \E t \in ThreadIds :
       /\ threads[t].pc = "unborn"
       /\ \A u \in ThreadIds : u < t => threads[u].pc # "unborn"
       /\ threads' = [threads EXCEPT ![t] = [Unborn EXCEPT !.pc = "created",
                                                            !.sid = ctl[c].arg]]
       /\ playing_thread' = t
  /\ ctl' = Goto(c, "ps_start")
  /\ UNCHANGED << stop_event, loop_enabled, variation_enabled, callers, library, limit,
                  down, now, lates >>

\* play_score line 131: self.playing_thread.start().  The attribute is read
\* again: None has no start (AttributeError), and a thread that was started
\* already cannot be started again (RuntimeError).  The started thread
\* enters time.sleep(3) (line 60).
PlayScoreStart(c) ==
  /\ ctl[c].pc = "ps_start"
  /\ IF playing_thread # 0 /\ threads[playing_thread].pc = "created"
     THEN /\ threads' = [threads EXCEPT ![playing_thread].pc = "preroll",
                                        ![playing_thread].begin = now,
                                        ![playing_thread].wake = now + PreRollMs]
          /\ ctl' = Return(c, "started", FALSE)
     ELSE /\ ctl' = Return(c, "raised", FALSE)
          /\ UNCHANGED threads
  /\ UNCHANGED << stop_event, playing_thread, loop_enabled, variation_enabled,
                  callers, library, limit, down, now, lates >>

\* stop line 137: if not self.is_playing(): return
StopGuard(c) ==
  /\ ctl[c].pc = "guard"
  /\ ctl[c].op = "stop"
  /\ ctl' = IF ctl[c].res THEN Goto(c, "st_set") ELSE Return(c, "noop", FALSE)
  /\ UNCHANGED << stop_event, playing_thread, loop_enabled, variation_enabled,
                  threads, callers, library, limit, down, now, lates >>

\* stop line 141: self.stop_event.set()
StopSetForgets(c) ==
  /\ ctl[c].pc = "st_set"
  /\ ctl' = Goto(c, "st_join")
  /\ UNCHANGED << stop_event, playing_thread, loop_enabled, variation_enabled,
                  threads, callers, library, limit, down, now, lates >>

StopSet(c) ==
  /\ ctl[c].pc = "st_set"
  /\ stop_event' = TRUE
  /\ ctl' = Goto(c, "st_join")
  /\ UNCHANGED << playing_thread, loop_enabled, variation_enabled, threads,
                  callers, library, limit, down, now, lates >>

\* stop line 142, entering self.playing_thread.join(): the attribute is read
\* (None has no join: AttributeError) and the call waits for that thread.
StopJoin(c) ==
  /\ ctl[c].pc = "st_join"
  /\ ctl' = IF playing_thread = 0
            THEN Return(c, "raised", FALSE)
            ELSE [ctl EXCEPT ![c].pc = "st_joining", ![c].jt = playing_thread]
  /\ UNCHANGED << stop_event, playing_thread, loop_enabled, variation_enabled,
                  threads, callers, library, limit, down, now, lates >>

\* join() returns at once, without waiting for the thread.
StopJoinedNoWait(c) ==
  /\ ctl[c].pc = "st_joining"
  /\ ctl' = Goto(c, "st_none")
  /\ UNCHANGED << stop_event, playing_thread, loop_enabled, variation_enabled,
                  threads, callers, library, limit, down, now, lates >>

\* stop line 142: join() returns once the thread has terminated (joining a
\* thread that was never started raises RuntimeError).
StopJoined(c) ==
  /\ ctl[c].pc = "st_joining"
  /\ threads[ctl[c].jt].pc \in {"dead", "created"}
  /\ ctl' = IF threads[ctl[c].jt].pc = "dead"
            THEN Goto(c, "st_none")
            ELSE Return(c, "raised", FALSE)
  /\ UNCHANGED << stop_event, playing_thread, loop_enabled, variation_enabled,
                  threads, callers, library, limit, down, now, lates >>

\* stop lines 143-144: self.playing_thread = None, and return.
StopNone(c) ==
  /\ ctl[c].pc = "st_none"
  /\ playing_thread' = 0
  /\ ctl' = Return(c, "stopped", FALSE)
  /\ UNCHANGED << stop_event, loop_enabled, variation_enabled, threads,
                  callers, library, limit, down, now, lates >>

\* toggle_loop line 21: self.loop_enabled = not self.loop_enabled
ToggleLoop(c) ==
  /\ ctl[c].pc = "idle"
  /\ "toggle_loop" \in Calls(c)
  /\ loop_enabled' = ~loop_enabled
  /\ ctl' = [ctl EXCEPT ![c] = [Outside EXCEPT !.pc = "tl_return",
                                               !.op = "toggle_loop"]]
  /\ UNCHANGED << stop_event, playing_thread, variation_enabled, threads,
                  callers, library, limit, down, now, lates >>

\* toggle_loop line 22: return self.loop_enabled
ToggleLoopReturn(c) ==
  /\ ctl[c].pc = "tl_return"
  /\ ctl' = Return(c, "toggled", loop_enabled)
  /\ UNCHANGED << stop_event, playing_thread, loop_enabled, variation_enabled,
                  threads, callers, library, limit, down, now, lates >>

\* toggle_variation line 26: self.variation_enabled = not self.variation_enabled
ToggleVariation(c) ==
  /\ ctl[c].pc = "idle"
  /\ "toggle_variation" \in Calls(c)
  /\ variation_enabled' = ~variation_enabled
  /\ ctl' = [ctl EXCEPT ![c] = [Outside EXCEPT !.pc = "tv_return",
                                               !.op = "toggle_variation"]]
  /\ UNCHANGED << stop_event, playing_thread, loop_enabled, threads, callers,
                  library, limit, down, now, lates >>

\* toggle_variation line 27: return self.variation_enabled
ToggleVariationReturnsOld(c) ==
  /\ ctl[c].pc = "tv_return"
  /\ ctl' = Return(c, "toggled", ~variation_enabled)
  /\ UNCHANGED << stop_event, playing_thread, loop_enabled, variation_enabled,
                  threads, callers, library, limit, down, now, lates >>

ToggleVariationReturn(c) ==
  /\ ctl[c].pc = "tv_return"
  /\ ctl' = Return(c, "toggled", variation_enabled)
  /\ UNCHANGED << stop_event, playing_thread, loop_enabled, variation_enabled,
                  threads, callers, library, limit, down, now, lates >>

---------------------------------------------------------------------------
(* The dispatch thread: _play_score_task and _play_note_group *)

\* Line 60: time.sleep(3) returns.
PreRollDone(t) ==
  /\ threads[t].pc = "preroll"
  /\ \E w \in WakeTimes(threads[t].wake) : Wake(t, w, "plan")
  /\ UNCHANGED << stop_event, playing_thread, loop_enabled, variation_enabled,
                  ctl, callers, library, limit, down >>

\* Line 78: performance_start_time = time.perf_counter()
PerformanceStartAtEntry(t) == threads[t].begin
PerformanceStart(t) == now

\* Lines 62-79: sort the notes, compute the loop duration, take the
\* reference instant, loop_count = 0.
Plan(t) ==
  /\ threads[t].pc = "plan"
  /\ LET score == AllScores[threads[t].sid]
         notes == sorted(Get(score, "notes", << >>))
         bpm == Get(score, "bpm", DefaultBpm)
     IN threads' = [threads EXCEPT
          ![t].pc = "while",
          ![t].notes = notes,
          ![t].num_measures =
             IF notes # << >> THEN NumMeasures(notes[Len(notes)].time, bpm)
             ELSE 0,
          ![t].total_loop_duration = TotalLoopDuration(notes, bpm),
          ![t].performance_start_time = PerformanceStart(t),
          ![t].loop_count = 0]
  /\ UNCHANGED << stop_event, playing_thread, loop_enabled, variation_enabled,
                  ctl, callers, library, limit, down, now, lates >>

\* Line 81: while not self.stop_event.is_set()
While(t) ==
  /\ threads[t].pc = "while"
  /\ threads' = [threads EXCEPT ![t].pc = IF stop_event THEN "report"
                                          ELSE "select"]
  /\ UNCHANGED << stop_event, playing_thread, loop_enabled, variation_enabled,
                  ctl, callers, library, limit, down, now, lates >>

\* Lines 82-89: notes_this_loop, all notes or, with variation enabled, the
\* notes whose draw is at most their probability (`varied` is the branch
\* that line 83 took).
SelectAlwaysFilters(t) ==
  /\ threads[t].pc = "select"
  /\ \E draws \in [1..Len(threads[t].notes) -> Draws] :
       threads' = [threads EXCEPT
         ![t].pc = "for",
         ![t].i = 1,
         ![t].log = << >>,
         ![t].varied = variation_enabled,
         ![t].notes_this_loop = Filter(threads[t].notes, draws, 1)]
  /\ UNCHANGED << stop_event, playing_thread, loop_enabled, variation_enabled,
                  ctl, callers, library, limit, down, now, lates >>

Select(t) ==
  /\ threads[t].pc = "select"
  /\ \E draws \in [1..Len(threads[t].notes) -> Draws] :
       threads' = [threads EXCEPT
         ![t].pc = "for",
         ![t].i = 1,
         ![t].log = << >>,
         ![t].varied = variation_enabled,
         ![t].notes_this_loop =
            IF variation_enabled THEN Filter(threads[t].notes, draws, 1)
            ELSE threads[t].notes]
  /\ UNCHANGED << stop_event, playing_thread, loop_enabled, variation_enabled,
                  ctl, callers, library, limit, down, now, lates >>

\* Line 96: target_absolute_time, from the fixed start and the loop count.
TargetFromNow(t, event_time_ms) ==
  now + event_time_ms
    - (IF threads[t].i > 1
       THEN threads[t].notes_this_loop[threads[t].i - 1].time ELSE 0)
TargetAbsoluteTime(t, event_time_ms) ==
  threads[t].performance_start_time
    + threads[t].loop_count * threads[t].total_loop_duration + event_time_ms

\* Lines 91-100: the next event of the cycle, if any; the first check of the
\* cancel flag; the target instant; sleep when it lies in the future.
ForSkipsLate(t) ==
  /\ threads[t].pc = "for"
  /\ LET th == threads[t]
     IN IF th.i > Len(th.notes_this_loop) \/ stop_event
        THEN threads' = [threads EXCEPT ![t].pc = "boundary"]
        ELSE LET target == TargetAbsoluteTime(t, th.notes_this_loop[th.i].time)
             IN threads' =
                  IF target - now < 0
                  THEN [threads EXCEPT ![t].i = th.i + 1]
                  ELSE [threads EXCEPT
                          ![t].target_absolute_time = target,
                          ![t].wake = target,
                          ![t].pc = IF target - now > 0 THEN "sleep"
                                    ELSE "check"]
  /\ UNCHANGED << stop_event, playing_thread, loop_enabled, variation_enabled,
                  ctl, callers, library, limit, down, now, lates >>

ForReadsLoop(t) ==
  /\ threads[t].pc = "for"
  /\ LET th == threads[t]
     IN IF th.i > Len(th.notes_this_loop) \/ stop_event \/ ~loop_enabled
        THEN threads' = [threads EXCEPT ![t].pc = "boundary"]
        ELSE LET target == TargetAbsoluteTime(t, th.notes_this_loop[th.i].time)
             IN threads' = [threads EXCEPT
                  ![t].target_absolute_time = target,
                  ![t].wake = target,
                  ![t].pc = IF target - now > 0 THEN "sleep" ELSE "check"]
  /\ UNCHANGED << stop_event, playing_thread, loop_enabled, variation_enabled,
                  ctl, callers, library, limit, down, now, lates >>

For(t) ==
  /\ threads[t].pc = "for"
  /\ LET th == threads[t]
     IN IF th.i > Len(th.notes_this_loop) \/ stop_event
        THEN threads' = [threads EXCEPT ![t].pc = "boundary"]
        ELSE LET target == TargetAbsoluteTime(t, th.notes_this_loop[th.i].time)
             IN threads' = [threads EXCEPT
                  ![t].target_absolute_time = target,
                  ![t].wake = target,
                  ![t].pc = IF target - now > 0 THEN "sleep" ELSE "check"]
  /\ UNCHANGED << stop_event, playing_thread, loop_enabled, variation_enabled,
                  ctl, callers, library, limit, down, now, lates >>

\* Line 100: time.sleep(sleep_duration) returns.
SleepDone(t) ==
  /\ threads[t].pc = "sleep"
  /\ \E w \in WakeTimes(threads[t].wake) : Wake(t, w, "check")
  /\ UNCHANGED << stop_event, playing_thread, loop_enabled, variation_enabled,
                  ctl, callers, library, limit, down >>

\* Line 105: the call self._play_note_group(note_event['note']) that thread t
\* makes for the event in hand: its cycle, the event, its target and the
\* instant of the call.
Dispatch(t) ==
  [cycle |-> threads[t].loop_count,
   group |-> threads[t].notes_this_loop[threads[t].i],
   target |-> threads[t].target_absolute_time,
   at |-> now]

\* Lines 102-105 and 33-42: the second check of the cancel flag, then
\* _play_note_group resolves the keys of the group; with none it returns.
CheckIgnoresStop(t) ==
  /\ threads[t].pc = "check"
  /\ LET th == threads[t]
         keys == KeysToPress(th.notes_this_loop[th.i].note)
     IN threads' =
          IF keys = << >>
          THEN [threads EXCEPT ![t].pc = "for", ![t].i = th.i + 1,
                               ![t].log = Append(th.log, Dispatch(t)),
                               ![t].calls = << >>,
                               ![t].warned = Unmapped(Dispatch(t).group.note)]
          ELSE [threads EXCEPT ![t].pc = "press",
                               ![t].keys_to_press = keys, ![t].k = 1,
                               ![t].log = Append(th.log, Dispatch(t)),
                               ![t].calls = << >>,
                               ![t].warned = Unmapped(Dispatch(t).group.note)]
  /\ UNCHANGED << stop_event, playing_thread, loop_enabled, variation_enabled,
                  ctl, callers, library, limit, down, now, lates >>

Check(t) ==
  /\ threads[t].pc = "check"
  /\ LET th == threads[t]
         keys == KeysToPress(th.notes_this_loop[th.i].note)
     IN threads' =
          IF stop_event THEN [threads EXCEPT ![t].pc = "boundary"]
          ELSE IF keys = << >>
               THEN [threads EXCEPT ![t].pc = "for", ![t].i = th.i + 1,
                                    ![t].log = Append(th.log, Dispatch(t)),
                                    ![t].calls = << >>,
                                    ![t].warned = Unmapped(Dispatch(t).group.note)]
               ELSE [threads EXCEPT ![t].pc = "press",
                                    ![t].keys_to_press = keys, ![t].k = 1,
                                    ![t].log = Append(th.log, Dispatch(t)),
                                    ![t].calls = << >>,
                                    ![t].warned = Unmapped(Dispatch(t).group.note)]
  /\ UNCHANGED << stop_event, playing_thread, loop_enabled, variation_enabled,
                  ctl, callers, library, limit, down, now, lates >>

\* Lines 45-49: pydirectinput.keyDown(key) for the next key, followed by the
\* actuator's pause (line 9); after the last key, time.sleep(0.05) begins.
Press(t) ==
  /\ threads[t].pc = "press"
  /\ LET th == threads[t]
         made == Append(th.calls, <<"keyDown", th.keys_to_press[th.k]>>)
     IN /\ down' = down \cup {th.keys_to_press[th.k]}
        /\ now' = now + ActuatorPauseMs
        /\ threads' =
             IF th.k < Len(th.keys_to_press)
             THEN [threads EXCEPT ![t].k = th.k + 1, ![t].calls = made]
             ELSE [threads EXCEPT ![t].pc = "hold", ![t].k = 1,
                                  ![t].calls = made,
                                  ![t].wake = now' + HoldMs]
  /\ UNCHANGED << stop_event, playing_thread, loop_enabled, variation_enabled,
                  ctl, callers, library, limit, lates >>

\* Line 49: time.sleep(0.05) returns.
HoldDoneChecksFlag(t) ==
  /\ threads[t].pc = "hold"
  /\ \E w \in WakeTimes(threads[t].wake) :
       Wake(t, w, IF stop_event THEN "boundary" ELSE "release")
  /\ UNCHANGED << stop_event, playing_thread, loop_enabled, variation_enabled,
                  ctl, callers, library, limit, down >>

HoldDone(t) ==
  /\ threads[t].pc = "hold"
  /\ \E w \in WakeTimes(threads[t].wake) : Wake(t, w, "release")
  /\ UNCHANGED << stop_event, playing_thread, loop_enabled, variation_enabled,
                  ctl, callers, library, limit, down >>

\* Line 52: the key of the k-th iteration of `for key in keys_to_press`.
ReleasedKeyReversed(t) ==
  threads[t].keys_to_press[Len(threads[t].keys_to_press) + 1 - threads[t].k]
ReleasedKey(t) == threads[t].keys_to_press[threads[t].k]

\* Lines 52-53: pydirectinput.keyUp(key) for the next key, followed by the
\* actuator's pause; after the last key _play_note_group returns and the
\* for loop goes to its next event.
Release(t) ==
  /\ threads[t].pc = "release"
  /\ LET th == threads[t]
         made == Append(th.calls, <<"keyUp", ReleasedKey(t)>>)
     IN /\ down' = down \ {ReleasedKey(t)}
        /\ now' = now + ActuatorPauseMs
        /\ threads' =
             IF th.k < Len(th.keys_to_press)
             THEN [threads EXCEPT ![t].k = th.k + 1, ![t].calls = made]
             ELSE [threads EXCEPT ![t].pc = "for", ![t].i = th.i + 1,
                                  ![t].calls = made,
                                  ![t].keys_to_press = << >>, ![t].k = 0]
  /\ UNCHANGED << stop_event, playing_thread, loop_enabled, variation_enabled,
                  ctl, callers, library, limit, lates >>

\* Line 107, left operand: not self.loop_enabled
BoundaryAlwaysLoops(t) ==
  /\ threads[t].pc = "boundary"
  /\ threads' = [threads EXCEPT ![t].pc = "boundary_stop"]
  /\ UNCHANGED << stop_event, playing_thread, loop_enabled, variation_enabled,
                  ctl, callers, library, limit, down, now, lates >>

Boundary(t) ==
  /\ threads[t].pc = "boundary"
  /\ threads' = [threads EXCEPT ![t].pc = IF ~loop_enabled THEN "report"
                                          ELSE "boundary_stop"]
  /\ UNCHANGED << stop_event, playing_thread, loop_enabled, variation_enabled,
                  ctl, callers, library, limit, down, now, lates >>

\* Lines 107-112, right operand self.stop_event.is_set(): break, or
\* loop_count += 1 and time.sleep(0.001) begins.
BoundaryStopBreaks(t) ==
  /\ threads[t].pc = "boundary_stop"
  /\ threads' = [threads EXCEPT ![t].pc = "report"]
  /\ UNCHANGED << stop_event, playing_thread, loop_enabled, variation_enabled,
                  ctl, callers, library, limit, down, now, lates >>

BoundaryStop(t) ==
  /\ threads[t].pc = "boundary_stop"
  /\ \/ stop_event
     \/ threads[t].loop_count < MaxLoops
     \/ threads[t].notes_this_loop = << >>
          /\ threads[t].loop_count < MaxEmptyLoops
  /\ threads' =
       IF stop_event THEN [threads EXCEPT ![t].pc = "report"]
       ELSE [threads EXCEPT ![t].pc = "pause",
                            ![t].loop_count = threads[t].loop_count + 1,
                            ![t].wake = now + PauseMs]
  /\ UNCHANGED << stop_event, playing_thread, loop_enabled, variation_enabled,
                  ctl, callers, library, limit, down, now, lates >>

\* Line 112: time.sleep(0.001) returns.
PauseDone(t) ==
  /\ threads[t].pc = "pause"
  /\ \E w \in WakeTimes(threads[t].wake) : Wake(t, w, "while")
  /\ UNCHANGED << stop_event, playing_thread, loop_enabled, variation_enabled,
                  ctl, callers, library, limit, down >>

\* Lines 114-117: report "completed" or "stopped".
Report(t) ==
  /\ threads[t].pc = "report"
  /\ threads' = [threads EXCEPT ![t].pc = "clear",
                                ![t].outcome = IF stop_event THEN "stopped"
                                               ELSE "completed"]
  /\ UNCHANGED << stop_event, playing_thread, loop_enabled, variation_enabled,
                  ctl, callers, library, limit, down, now, lates >>

\* Line 119: self.stop_event.clear(); _play_score_task returns.
Clear(t) ==
  /\ threads[t].pc = "clear"
  /\ stop_event' = FALSE
  /\ threads' = [threads EXCEPT ![t].pc = "returned"]
  /\ UNCHANGED << playing_thread, loop_enabled, variation_enabled, ctl,
                  callers, library, limit, down, now, lates >>

\* The thread terminates: from here on is_alive() is false and join()
\* returns.  Its locals are gone.  perf_counter() has no defined origin and
\* only differences of instants are used: when the last live thread
\* terminates no deadline refers to the clock any more, and the model
\* re-bases it to 0 (the budget of late sleeps is per session).
Terminate(t) ==
  /\ threads[t].pc = "returned"
  /\ threads' = [threads EXCEPT ![t] = [Unborn EXCEPT !.pc = "dead"]]
  /\ now' = IF Alive = {t} THEN 0 ELSE now
  /\ lates' = IF Alive = {t} THEN 0 ELSE lates
  /\ UNCHANGED << stop_event, playing_thread, loop_enabled, variation_enabled,
                  ctl, callers, library, limit, down >>

\* Line 46: pydirectinput.keyDown(key) raises.  The key is not pressed, and
\* the exception leaves the for loop of line 45.
PressRaise(t) ==
  /\ threads[t].pc = "press"
  /\ threads' = [threads EXCEPT ![t].pc = "raised", ![t].failed = TRUE]
  /\ UNCHANGED << stop_event, playing_thread, loop_enabled, variation_enabled,
                  ctl, callers, library, limit, down, now, lates >>

\* Line 53: pydirectinput.keyUp(key) raises.  The key stays down, and the
\* exception leaves the for loop of line 52.
ReleaseRaise(t) ==
  /\ threads[t].pc = "release"
  /\ threads' = [threads EXCEPT ![t].pc = "raised", ![t].failed = TRUE]
  /\ UNCHANGED << stop_event, playing_thread, loop_enabled, variation_enabled,
                  ctl, callers, library, limit, down, now, lates >>

\* The exception propagates: _play_note_group has no handler (lines 29-53),
\* nor has _play_score_task around line 105 or anywhere else (lines 55-119),
\* so the thread's run ends with it.  Lines 107-119 are not executed, and
\* stop_event keeps its value.
Unwind(t) ==
  /\ threads[t].pc = "raised"
  /\ threads' = [threads EXCEPT ![t] = [Unborn EXCEPT !.pc = "dead"]]
  /\ now' = IF Alive = {t} THEN 0 ELSE now
  /\ lates' = IF Alive = {t} THEN 0 ELSE lates
  /\ UNCHANGED << stop_event, playing_thread, loop_enabled, variation_enabled,
                  ctl, callers, library, limit, down >>

---------------------------------------------------------------------------
(* Specifications *)

Control(c) ==
  \/ \E sid \in library : CallPlayScore(c, sid)
  \/ CallStop(c)
  \/ IsPlayingThread(c)
  \/ IsPlayingAlive(c)
  \/ PlayScoreGuard(c)
  \/ PlayScoreClear(c)
  \/ PlayScoreCreate(c)
  \/ PlayScoreStart(c)
  \/ StopGuard(c)
  \/ StopSet(c)
  \/ StopJoin(c)
  \/ StopJoined(c)
  \/ StopNone(c)
  \/ ToggleLoop(c)
  \/ ToggleLoopReturn(c)
  \/ ToggleVariation(c)
  \/ ToggleVariationReturn(c)

Task(t) ==
  \/ PreRollDone(t)
  \/ Plan(t)
  \/ While(t)
  \/ Select(t)
  \/ For(t)
  \/ SleepDone(t)
  \/ Check(t)
  \/ Press(t)
  \/ HoldDone(t)
  \/ Release(t)
  \/ Boundary(t)
  \/ BoundaryStop(t)
  \/ PauseDone(t)
  \/ Report(t)
  \/ Clear(t)
  \/ Terminate(t)

Next ==
  \/ \E c \in callers : Control(c)
  \/ \E t \in ThreadIds : Task(t)

\* The player driven from one control context.
Spec == Init /\ [][Next]_vars

\* The steps of the dispatch thread for a score without notes and with
\* loop_enabled false throughout: the for loop has no event, so lines 92-105
\* and _play_note_group are never entered, and line 107 breaks.
TaskNoEvents(t) ==
  \/ PreRollDone(t)
  \/ Plan(t)
  \/ While(t)
  \/ Select(t)
  \/ For(t)
  \/ Boundary(t)
  \/ Report(t)
  \/ Clear(t)
  \/ Terminate(t)

\* play_score and stop, without the toggles.
ControlStartStop(c) ==
  \/ \E sid \in library : CallPlayScore(c, sid)
  \/ CallStop(c)
  \/ IsPlayingThread(c)
  \/ IsPlayingAlive(c)
  \/ PlayScoreGuard(c)
  \/ PlayScoreClear(c)
  \/ PlayScoreCreate(c)
  \/ PlayScoreStart(c)
  \/ StopGuard(c)
  \/ StopSet(c)
  \/ StopJoin(c)
  \/ StopJoined(c)
  \/ StopNone(c)

NextMulti ==
  \/ \E c \in callers : ControlStartStop(c)
  \/ \E t \in ThreadIds : TaskNoEvents(t)

\* The player started and stopped from two contexts at once, playing the
\* empty score with the loop and variation flags left as constructed.
SpecMulti == InitMulti /\ [][NextMulti]_vars

\* A caller that calls stop() only while no dispatch thread is alive.
CallStopIdle(c) == Alive = {} /\ CallStop(c)

\* The control surface as used around sessions that are left to finish: no
\* toggle is called, and stop() only between sessions (where it returns at
\* its guard, line 138).
ControlNatural(c) ==
  \/ \E sid \in library : CallPlayScore(c, sid)
  \/ CallStopIdle(c)
  \/ IsPlayingThread(c)
  \/ IsPlayingAlive(c)
  \/ PlayScoreGuard(c)
  \/ PlayScoreClear(c)
  \/ PlayScoreCreate(c)
  \/ PlayScoreStart(c)
  \/ StopGuard(c)

\* The steps of a dispatch thread that finds loop_enabled false at line 107.
TaskOnce(t) ==
  \/ PreRollDone(t)
  \/ Plan(t)
  \/ While(t)
  \/ Select(t)
  \/ For(t)
  \/ SleepDone(t)
  \/ Check(t)
  \/ Press(t)
  \/ HoldDone(t)
  \/ Release(t)
  \/ Boundary(t)
  \/ Report(t)
  \/ Clear(t)
  \/ Terminate(t)

InitNatural == InitWith({"gui"}, {1, 2}, MaxThreads)

NextNatural ==
  \/ \E c \in callers : ControlNatural(c)
  \/ \E t \in ThreadIds : TaskOnce(t)

\* Sessions of the two-note scores left to finish by themselves, with the
\* flags as constructed.  A started thread keeps running: every sleep
\* returns and the scheduler runs the thread.
SpecNatural ==
  InitNatural /\ [][NextNatural]_vars
    /\ \A t \in ThreadIds : WF_vars(TaskOnce(t))

\* One session of a score that exercises the dispatcher, driven from one
\* control context with the whole control surface.
InitDispatch == InitWith({"gui"}, DispatchIds, 1)

SpecDispatch == InitDispatch /\ [][Next]_vars

\* The steps of a dispatch thread whose actuator may fail.
TaskFaulty(t) ==
  \/ Task(t)
  \/ PressRaise(t)
  \/ ReleaseRaise(t)
  \/ Unwind(t)

InitFaulty == InitWith({"gui"}, {1}, MaxThreads)

NextFaulty ==
  \/ \E c \in callers : Control(c)
  \/ \E t \in ThreadIds : TaskFaulty(t)

\* The player with a key actuator whose keyDown and keyUp may raise.
SpecFaulty == InitFaulty /\ [][NextFaulty]_vars

\* The control surface without stop(): play_score and toggle_loop.
ControlNoStop(c) ==
  \/ \E sid \in library : CallPlayScore(c, sid)
  \/ IsPlayingThread(c)
  \/ IsPlayingAlive(c)
  \/ PlayScoreGuard(c)
  \/ PlayScoreClear(c)
  \/ PlayScoreCreate(c)
  \/ PlayScoreStart(c)
  \/ ToggleLoop(c)
  \/ ToggleLoopReturn(c)

InitLoop == InitWith({"gui"}, {1, 3}, MaxThreads)

NextLoop ==
  \/ \E c \in callers : ControlNoStop(c)
  \/ \E t \in ThreadIds : Task(t)

\* Sessions on which stop() is never called, with the loop flag toggled at
\* will.  A started thread keeps running.
SpecLoop ==
  InitLoop /\ [][NextLoop]_vars /\ \A t \in ThreadIds : WF_vars(Task(t))

\* The steps of a call that is under way (all but the steps that begin one).
InCall(c) ==
  \/ IsPlayingThread(c)
  \/ IsPlayingAlive(c)
  \/ PlayScoreGuard(c)
  \/ PlayScoreClear(c)
  \/ PlayScoreCreate(c)
  \/ PlayScoreStart(c)
  \/ StopGuard(c)
  \/ StopSet(c)
  \/ StopJoin(c)
  \/ StopJoined(c)
  \/ StopNone(c)
  \/ ToggleLoopReturn(c)
  \/ ToggleVariationReturn(c)

InitLive == InitWith({"gui"}, {1}, MaxThreads)

\* The player driven from one control context, where a started thread and a
\* call under way keep running: every sleep returns and the scheduler runs
\* both threads.  When and what the context calls is free.
SpecLive ==
  InitLive /\ [][Next]_vars
    /\ \A t \in ThreadIds : WF_vars(Task(t))
    /\ \A c \in {"gui"} : WF_vars(InCall(c))

---------------------------------------------------------------------------
(* Properties *)

\* stop() has returned to context c after finding the player running, and c
\* has made no call since.
StopReturned(c) == ctl[c].pc = "idle" /\ ctl[c].ret = "stopped"

\* The thread has passed line 79: its plan (notes, duration, start) is made.
Planned(t) ==
  threads[t].pc \notin {"unborn", "created", "preroll", "plan", "dead"}

\* The thread is handling event i of the cycle: lines 96-105.
AtEvent(t) ==
  threads[t].pc \in {"sleep", "check", "press", "hold", "release"}

\* The thread is inside a cycle whose notes_this_loop has been built.
InCycle(t) == AtEvent(t) \/ threads[t].pc \in {"for", "boundary", "boundary_stop"}

\* A step in which a thread calls the key actuator (keyDown or keyUp).
ActuatorCall ==
  \E t \in ThreadIds :
    threads[t].pc \in {"press", "release"} /\ threads'[t] # threads[t]

ScoreOf(t) == AllScores[threads[t].sid]
BpmOf(t) == Get(ScoreOf(t), "bpm", DefaultBpm)
RawNotes(t) == Get(ScoreOf(t), "notes", << >>)

\* C1: cancellation safety.  Once stop() has returned to the control context
\* after finding the player running, is_playing() is false and no dispatch
\* thread is alive, and no keyDown/keyUp is issued from then on (until the
\* context calls the player again).
C1_CancellationSafety ==
  /\ [](\A c \in callers : StopReturned(c) => ~is_playing /\ Alive = {})
  /\ [][(\E c \in callers : StopReturned(c)) => ~ActuatorCall]_vars

\* C1 witness: stop() found the player running and has returned; the thread
\* it joined is dead.
C1_Witness ==
  \E c \in callers : \E t \in ThreadIds :
    StopReturned(c) /\ threads[t].pc = "dead" /\ playing_thread = 0

\* C2: at most one dispatch thread is alive at any time, also with
\* play_score() called from more than one context.
C2_AtMostOneThread == Cardinality(Alive) <= 1

\* A step of context c inside play_score() up to the guard of line 125: the
\* call and the evaluation of is_playing().
GuardingStep(c) ==
  /\ ctl'[c] # ctl[c]
  /\ ctl'[c].op = "play_score"
  /\ ctl'[c].pc \in {"is_playing", "is_alive", "guard"}

\* The step of context c after is_playing() returned true in play_score().
RejectingStep(c) ==
  /\ ctl'[c] # ctl[c]
  /\ ctl[c].op = "play_score" /\ ctl[c].pc = "guard" /\ ctl[c].res

\* C3: a rejected start changes nothing.  A play_score() call that finds the
\* player running returns without changing playing_thread, stop_event (a
\* pending cancel request stays), loop_enabled or variation_enabled, without
\* creating a thread and without changing the state of the running thread,
\* the keys or the clock.
C3_RejectedStartChangesNothing ==
  [][\A c \in callers :
       /\ RejectingStep(c) => ctl'[c].pc = "idle" /\ ctl'[c].ret = "rejected"
       /\ GuardingStep(c) \/ RejectingStep(c) =>
            UNCHANGED << playing_thread, stop_event, loop_enabled,
                         variation_enabled, threads, down, now, lates >>]_vars

\* C3 witness: play_score() was rejected while a cancel request was pending
\* on the live session.
C3_Witness ==
  \E c \in callers :
    /\ ctl[c].pc = "idle" /\ ctl[c].op = "play_score"
    /\ ctl[c].ret = "rejected"
    /\ stop_event /\ is_playing

\* C4: whenever a stop() that found the player running returns, the cancel
\* flag is clear.
C4_StopLeavesFlagClear ==
  \A c \in callers : StopReturned(c) => ~stop_event

\* C5 as claimed: the reference instant is the instant before the pre-roll
\* (the clock when the thread entered time.sleep(3)).
C5_StartBeforePreRoll ==
  \A t \in ThreadIds :
    Planned(t) => threads[t].performance_start_time = threads[t].begin

\* C5 amended: the reference instant is taken after the pre-roll sleep has
\* returned, at least 3 s after the thread began, and every target instant is
\* at least (instant before pre-roll) + 3 s + n*cycleDuration + offset.
C5_StartAfterPreRoll ==
  \A t \in ThreadIds :
    /\ Planned(t) =>
         threads[t].performance_start_time >= threads[t].begin + PreRollMs
    /\ AtEvent(t) =>
         threads[t].target_absolute_time >=
           threads[t].begin + PreRollMs
             + threads[t].loop_count * threads[t].total_loop_duration
             + threads[t].notes_this_loop[threads[t].i].time

\* C5 witness: a thread whose pre-roll sleep returned late waits for an event
\* of its second cycle.
C5_Witness ==
  \E t \in ThreadIds :
    /\ threads[t].pc = "sleep" /\ threads[t].loop_count = 1
    /\ threads[t].performance_start_time > threads[t].begin + PreRollMs

\* C6: no drift.  The start instant and the cycle duration are fixed once
\* planned, and the target of the event being handled is
\* start + loop_count * duration + offset, however late the clock is.
C6_NoDrift ==
  /\ [](\A t \in ThreadIds :
          AtEvent(t) =>
            threads[t].target_absolute_time =
              threads[t].performance_start_time
                + threads[t].loop_count * threads[t].total_loop_duration
                + threads[t].notes_this_loop[threads[t].i].time)
  /\ [][\A t \in ThreadIds :
          Planned(t) /\ threads'[t].pc # "dead" =>
            /\ threads'[t].performance_start_time
                 = threads[t].performance_start_time
            /\ threads'[t].total_loop_duration = threads[t].total_loop_duration
            /\ threads'[t].loop_count \in
                 {threads[t].loop_count, threads[t].loop_count + 1}]_vars

\* C6 witness: an event of the second cycle is reached late (the clock is
\* past its target) after an earlier sleep overran.
C6_Witness ==
  \E t \in ThreadIds :
    /\ threads[t].pc = "check" /\ threads[t].loop_count = 1
    /\ threads[t].i = 2
    /\ now > threads[t].target_absolute_time


\* The largest 'time' of a non-empty sequence of notes.
LastOffset(notes) ==
  CHOOSE m \in {notes[j].time : j \in DOMAIN notes} :
    \A j \in DOMAIN notes : notes[j].time <= m

\* The notes every one of which has the given probability (an absent field
\* counts as 1.0).
AllProbability(notes, p) ==
  \A j \in DOMAIN notes : Get(notes[j], "probability", ProbScale) = p

\* C7: measure alignment.  For a non-empty score the cycle duration is
\* (floor(last_offset_ms / (240000/bpm)) + 1) * (240000/bpm) ms, with
\* last_offset_ms the largest 'time' of the score (both sides times bpm).
C7_MeasureAlignment ==
  \A t \in ThreadIds :
    Planned(t) /\ RawNotes(t) # << >> =>
      threads[t].total_loop_duration * BpmOf(t) =
        (((LastOffset(RawNotes(t)) * BpmOf(t)) \div MeasureMsTimesBpm) + 1)
          * MeasureMsTimesBpm

\* C8: degenerate score.  A thread that has planned a score whose notes are
\* empty or absent has the positive fallback 4 * (240000/bpm) ms as its cycle
\* duration (both sides times bpm).
C8_DegenerateScore ==
  \A t \in ThreadIds :
    Planned(t) /\ RawNotes(t) = << >> =>
      /\ threads[t].total_loop_duration > 0
      /\ threads[t].total_loop_duration * BpmOf(t)
           = FallbackMeasures * MeasureMsTimesBpm

\* C8 witness: a thread planned a score without a notes field and runs a
\* cycle of it.
C8_Witness ==
  \E t \in ThreadIds :
    /\ InCycle(t)
    /\ "notes" \notin DOMAIN ScoreOf(t)
    /\ threads[t].total_loop_duration = 8000

\* C8 witness, second case: the notes field is present and empty.
C8_WitnessEmpty ==
  \E t \in ThreadIds :
    InCycle(t) /\ "notes" \in DOMAIN ScoreOf(t) /\ RawNotes(t) = << >>

\* C9: variation lower bound.  A cycle selected with variation enabled from
\* notes that all have probability 0.0 contains no note, whatever the draws.
C9_VariationNever ==
  \A t \in ThreadIds :
    InCycle(t) /\ threads[t].varied /\ AllProbability(threads[t].notes, 0)
      => threads[t].notes_this_loop = << >>

\* C10: variation upper bound.  A cycle selected with variation enabled from
\* notes that all have probability 1.0 (or none given) is the full sorted
\* timeline, in order, whatever the draws.
C10_VariationAlways ==
  \A t \in ThreadIds :
    InCycle(t) /\ threads[t].varied
      /\ AllProbability(threads[t].notes, ProbScale)
      => /\ threads[t].notes_this_loop = threads[t].notes
         /\ threads[t].notes = sorted(RawNotes(t))

\* C10 witness: a varied cycle of the unsorted score (one probability 1.0,
\* one absent) dispatches its second event.
C10_Witness ==
  \E t \in ThreadIds :
    /\ threads[t].varied /\ threads[t].pc = "press" /\ threads[t].i = 2
    /\ Len(threads[t].notes) = 2
    /\ AllProbability(threads[t].notes, ProbScale)
    /\ RawNotes(t)[1].time > RawNotes(t)[2].time

\* The calls logged are calls for exactly the given notes, each once.
IsPermutationOf(log, notes) ==
  /\ Len(log) = Len(notes)
  /\ \E p \in [DOMAIN notes -> DOMAIN notes] :
       /\ \A a, b \in DOMAIN notes : a # b => p[a] # p[b]
       /\ \A j \in DOMAIN notes : log[j].group = notes[p[j]]

\* The thread has left the while loop (lines 114-119).
Leaving(t) == threads[t].pc \in {"report", "clear", "returned"}

\* A session has ended and no thread is alive.
Ended == Alive = {} /\ \E t \in ThreadIds : threads[t].pc = "dead"

\* C11: natural completion.  A session with loop and variation disabled in
\* which no stop() and no toggle is called has, when it leaves its loop,
\* called the dispatcher for every note group of the score exactly once and
\* reports completion; every live thread eventually terminates, so
\* is_playing() becomes false; and once a session has ended, is_playing()
\* evaluates to false, with which stop() returns at its guard changing
\* nothing and play_score() passes its guard.
C11_NaturalCompletion ==
  /\ [](\A t \in ThreadIds :
          Leaving(t) =>
            /\ IsPermutationOf(threads[t].log, RawNotes(t))
            /\ threads[t].pc # "report" => threads[t].outcome = "completed")
  /\ \A t \in ThreadIds : is_alive(t) ~> (~is_alive(t) /\ ~is_playing)
  /\ [][\A c \in callers :
          ctl'[c] # ctl[c] =>
            /\ ctl[c].pc \in {"is_playing", "is_alive"} /\ Ended
                 => /\ ctl'[c].pc \in {"is_alive", "guard"}
                    /\ ctl'[c].pc = "guard" => ~ctl'[c].res
            /\ ctl[c].pc = "guard" /\ ~ctl[c].res /\ ctl[c].op = "stop"
                 => ctl'[c].pc = "idle" /\ ctl'[c].ret = "noop"
            /\ ctl[c].pc = "guard" /\ ~ctl[c].res /\ ctl[c].op = "play_score"
                 => ctl'[c].pc = "ps_clear"
            /\ ctl[c].op = "stop"
                 => UNCHANGED << stop_event, playing_thread, loop_enabled,
                                 variation_enabled, threads, down >>]_vars

\* C11 witness: the first session has ended by itself and a new play_score()
\* was accepted: its thread dispatches the second event of the score.
C11_Witness ==
  /\ threads[1].pc = "dead"
  /\ threads[2].pc = "press" /\ threads[2].i = 2
  /\ ctl["gui"].ret = "started"

\* C12: dispatch ordering.  The dispatcher calls of a cycle are made in
\* non-decreasing offset order, also for a score given unsorted, and in the
\* order of time; a call for an event of cycle n is made no earlier than
\* T0 + n*cycleDuration (nor than its own target); and when the thread waits
\* for or reaches an event no key of an earlier dispatch is still down, so
\* dispatches do not overlap.
C12_DispatchOrdering ==
  \A t \in ThreadIds :
    LET th == threads[t]
    IN /\ \A j \in DOMAIN th.log :
            /\ InCycle(t) => th.log[j].cycle = th.loop_count
            /\ th.log[j].at >= th.performance_start_time
                                 + th.log[j].cycle * th.total_loop_duration
            /\ th.log[j].at >= th.log[j].target
            /\ j > 1 => /\ th.log[j - 1].group.time <= th.log[j].group.time
                        /\ th.log[j - 1].at <= th.log[j].at
       /\ th.pc \in {"for", "sleep", "check"} => down = {}

\* C12 witness: in the second cycle of the score given unsorted both events
\* have been dispatched, the later one after its target.
C12_Witness ==
  \E t \in ThreadIds :
    /\ threads[t].loop_count = 1 /\ Len(threads[t].log) = 2
    /\ RawNotes(t)[1].time > RawNotes(t)[2].time
    /\ threads[t].log[2].at > threads[t].log[2].target

\* The pcs of a thread inside a cycle (see InCycle).
CyclePcs ==
  {"for", "sleep", "check", "press", "hold", "release", "boundary",
   "boundary_stop"}

\* C13: the toggles.  The first statement of toggle_loop / toggle_variation
\* negates its flag and changes nothing else of the player, the flag then
\* stays until the call returns it, with a thread alive or not.  A cycle's
\* notes_this_loop is built by the selection from the value variation_enabled
\* has then and is the same in every later state of the cycle, whatever the
\* flag becomes, and the dispatcher calls of the cycle follow it.
C13_Toggles ==
  /\ [][\A c \in callers :
          /\ ctl[c].pc = "idle" /\ ctl'[c].pc = "tl_return"
               => /\ loop_enabled' = ~loop_enabled
                  /\ UNCHANGED << variation_enabled, stop_event, playing_thread,
                                  threads, down >>
          /\ ctl[c].pc = "idle" /\ ctl'[c].pc = "tv_return"
               => /\ variation_enabled' = ~variation_enabled
                  /\ UNCHANGED << loop_enabled, stop_event, playing_thread,
                                  threads, down >>
          /\ ctl[c].pc = "tl_return"
               => /\ loop_enabled' = loop_enabled
                  /\ ctl'[c] # ctl[c] => /\ ctl'[c].pc = "idle"
                                         /\ ctl'[c].res = loop_enabled
          /\ ctl[c].pc = "tv_return"
               => /\ variation_enabled' = variation_enabled
                  /\ ctl'[c] # ctl[c] => /\ ctl'[c].pc = "idle"
                                         /\ ctl'[c].res = variation_enabled]_vars
  /\ [][\A t \in ThreadIds :
          /\ threads[t].pc \in CyclePcs /\ threads'[t].pc \in CyclePcs
               => /\ threads'[t].notes_this_loop = threads[t].notes_this_loop
                  /\ threads'[t].varied = threads[t].varied
          /\ threads[t].pc = "select" /\ threads'[t].pc # "select"
               => /\ threads'[t].varied = variation_enabled
                  /\ ~variation_enabled
                       => threads'[t].notes_this_loop = threads[t].notes]_vars
  /\ [](\A t \in ThreadIds :
          InCycle(t) =>
            /\ Len(threads[t].log) <= Len(threads[t].notes_this_loop)
            /\ \A j \in DOMAIN threads[t].log :
                 threads[t].log[j].group = threads[t].notes_this_loop[j])

\* C13 witness: toggle_variation() has returned True while a cycle selected
\* without variation is dispatching its second event.
C13_Witness ==
  \E c \in callers : \E t \in ThreadIds :
    /\ ctl[c].pc = "idle" /\ ctl[c].op = "toggle_variation" /\ ctl[c].res
    /\ variation_enabled /\ ~threads[t].varied
    /\ threads[t].pc = "press" /\ threads[t].i = 2
    /\ Len(threads[t].log) = 2

\* The actuator calls `op` for the first n of the keys, in order.
ActuatorCalls(op, keys, n) == [j \in 1..n |-> <<op, keys[j]>>]

\* The thread is inside the actuator part of _play_note_group (lines 45-53).
Dispatching(t) == threads[t].pc \in {"press", "hold", "release"}

\* C14: dispatcher sequence.  With K the mapped keys of the group of the
\* latest dispatcher call, in the order of the group's list, the actuator calls
\* of that dispatch are keyDown for a prefix of K, in order, followed, only
\* once all of K is down and the hold of 50 ms has passed, by keyUp for a
\* prefix of K, in order; when the call has returned they are keyDown for all
\* of K then keyUp for all of K, and no key is down.
C14_DispatcherSequence ==
  \A t \in ThreadIds :
    LET th == threads[t]
        K == KeysToPress(th.log[Len(th.log)].group.note)
        n == Len(K)
    IN th.log # << >> =>
         /\ Dispatching(t) => th.keys_to_press = K /\ n > 0
         /\ th.pc = "press" => th.calls = ActuatorCalls("keyDown", K, th.k - 1)
         /\ th.pc = "hold" => th.calls = ActuatorCalls("keyDown", K, n)
         /\ th.pc = "release" =>
              /\ th.calls = ActuatorCalls("keyDown", K, n)
                              \o ActuatorCalls("keyUp", K, th.k - 1)
              /\ now >= th.log[Len(th.log)].at + n * ActuatorPauseMs + HoldMs
         /\ ~Dispatching(t) =>
              /\ th.calls = ActuatorCalls("keyDown", K, n)
                              \o ActuatorCalls("keyUp", K, n)
              /\ down = {}

\* C14 witness: the dispatch of the group of three mapped keys has returned
\* after its six actuator calls.
C14_Witness ==
  \E t \in ThreadIds :
    /\ threads[t].pc = "for" /\ threads[t].i = 2
    /\ Len(threads[t].calls) = 6
    /\ threads[t].calls[1] = <<"keyDown", "s">>
    /\ threads[t].calls[6] = <<"keyUp", "a">>

\* The keys for which the given actuator call was made.
KeysCalled(calls, op) == {c[2] : c \in {d \in Range(calls) : d[1] = op}}

\* C15: unmapped key handling.  For the latest dispatcher call, the names
\* warned about are exactly the names of the group without a mapping; the
\* keys of the names that have one are, when the call has returned, exactly
\* the keys pressed and the keys released; with no such name the call makes no
\* actuator call; and the for loop goes on: back at its head, the index is
\* past every event dispatched so far.
C15_UnmappedKeys ==
  \A t \in ThreadIds :
    LET th == threads[t]
        names == Range(th.log[Len(th.log)].group.note)
        mapped == {key_mapping[x] : x \in names \cap DOMAIN key_mapping}
    IN th.log # << >> =>
         /\ Range(th.warned) = names \ DOMAIN key_mapping
         /\ ~Dispatching(t) =>
              /\ KeysCalled(th.calls, "keyDown") = mapped
              /\ KeysCalled(th.calls, "keyUp") = mapped
         /\ mapped = {} => th.calls = << >> /\ ~Dispatching(t)
         /\ th.pc = "for" => th.i = Len(th.log) + 1

\* C15 witness: after a group with no mapped name and a group with a name
\* without mapping between two mapped ones, the third event of the cycle is
\* being dispatched.
C15_Witness ==
  \E t \in ThreadIds :
    /\ Len(threads[t].log) = 3 /\ threads[t].pc = "hold"
    /\ KeysToPress(threads[t].log[1].group.note) = << >>
    /\ threads[t].log[2].group.note = <<"snare", "cowbell", "bass_drum">>

\* The places of a thread inside the while loop or on the exit path after it
\* (lines 81-119).
LoopOrExit(t) ==
  threads[t].pc \in CyclePcs \cup {"pause", "while", "select"} \/ Leaving(t)

\* C16: actuation failure does not abort the session.  A live thread in
\* which a keyDown or keyUp call has raised is still in its dispatch loop or on
\* the normal exit path that clears the cancel flag.
C16_FailureDoesNotAbort ==
  \A t \in ThreadIds : threads[t].failed => LoopOrExit(t)

\* C17: no automatic timeout.  When stop() is never called the cancel flag
\* stays clear and a thread leaves its while loop only at a cycle boundary at
\* which it reads loop_enabled false (line 107); a live thread that has its
\* plan and is in cycle n goes on to cycle n + 1 unless it reads the flag
\* false at a boundary (n below the model's bound on the cycle index).
C17_NoTimeout ==
  /\ [](~stop_event)
  /\ [][\A t \in ThreadIds :
          threads[t].pc # "report" /\ threads'[t].pc = "report"
            => threads[t].pc = "boundary" /\ ~loop_enabled]_vars
  /\ [][\A t \in ThreadIds :
          is_alive(t) /\ threads[t].pc # "returned" => threads'[t].pc # "dead"]_vars
  /\ \A t \in ThreadIds : \A n \in 0..(MaxLoops - 1) :
       (Planned(t) /\ threads[t].loop_count = n)
         ~> (threads[t].loop_count = n + 1 \/ Leaving(t))

\* C17 witness: with the loop flag on and no stop(), a thread dispatches the
\* second event of its second cycle.
C17_Witness ==
  \E t \in ThreadIds :
    /\ threads[t].loop_count = 1 /\ threads[t].pc = "press"
    /\ threads[t].i = 2 /\ loop_enabled

\* C18: merge invariant.  The timeline a thread has planned (the sorted notes
\* it schedules) holds no two note groups with the same offset.
C18_NoSharedOffset ==
  \A t \in ThreadIds :
    Planned(t) =>
      \A a, b \in DOMAIN threads[t].notes :
        a # b => threads[t].notes[a].time # threads[t].notes[b].time

\* The for loop of the cycle in hand ran through all of notes_this_loop
\* (it was not left by a break of line 93 or 103).
CycleCompleted(t) ==
  /\ threads[t].pc \in {"boundary", "boundary_stop"}
  /\ threads[t].i > Len(threads[t].notes_this_loop)

\* C19: determinism with variation disabled.  Every cycle that is selected
\* with variation off and completed has made exactly the dispatcher calls that
\* the score determines: one for each note of the score in the stable order of
\* the offsets, with a target that lies the note's offset after the cycle's
\* base instant T0 + n*cycleDuration, whichever cycle it is and however late
\* the clock ran.
C19_Deterministic ==
  \A t \in ThreadIds :
    LET th == threads[t]
        timeline == sorted(RawNotes(t))
    IN CycleCompleted(t) /\ ~th.varied =>
         /\ Len(th.log) = Len(timeline)
         /\ \A j \in DOMAIN th.log :
              /\ th.log[j].group = timeline[j]
              /\ th.log[j].cycle = th.loop_count
              /\ th.log[j].target
                   - (th.performance_start_time
                        + th.loop_count * th.total_loop_duration)
                   = timeline[j].time

\* C19 witness: the second cycle of a two-note score, selected with variation
\* off, is completed, its second event having been dispatched late.
C19_Witness ==
  \E t \in ThreadIds :
    /\ CycleCompleted(t) /\ ~threads[t].varied
    /\ threads[t].loop_count = 1 /\ Len(threads[t].log) = 2
    /\ threads[t].log[2].at > threads[t].log[2].target

\* C20: stop is live and the player is restartable.  Every call of the
\* control surface returns, none by an exception; a live thread with the
\* cancel flag set terminates; and when stop() has returned the player is idle:
\* is_playing() is false and no thread is alive.  So from every state stop()
\* can be called and brings the player to idle.
C20_StopIsLive ==
  /\ \A c \in {"gui"} : (ctl[c].pc # "idle") ~> (ctl[c].pc = "idle")
  /\ \A t \in ThreadIds : (stop_event /\ is_alive(t)) ~> ~is_alive(t)
  /\ [](\A c \in callers :
          /\ ctl[c].ret # "raised"
          /\ ctl[c].pc = "idle" /\ ctl[c].op = "stop"
               => ~is_playing /\ Alive = {})

\* C20 witness: stop() waits in join() for a thread in loop mode that sleeps
\* before its second cycle with the cancel flag set.
C20_Witness ==
  \E c \in callers : \E t \in ThreadIds :
    /\ ctl[c].pc = "st_joining" /\ ctl[c].jt = t
    /\ threads[t].pc = "pause" /\ threads[t].loop_count = 1
    /\ stop_event /\ loop_enabled

\* C20 witness, second case: stop() waits in join() for a thread that is in
\* its pre-roll sleep.
C20_WitnessPreRoll ==
  \E c \in callers :
    /\ ctl[c].pc = "st_joining" /\ stop_event
    /\ threads[ctl[c].jt].pc = "preroll"

\* C21: cycle-boundary decision.  A thread leaves the for loop only when
\* every selected event has been handled or the cancel flag is set, whatever
\* loop_enabled is; at the boundary it leaves the while loop when
\* loop_enabled is false or the flag is set, and otherwise increments the
\* cycle index by exactly one and, after its pause, starts a new cycle; the
\* index changes nowhere else.
C21_BoundaryDecision ==
  [][\A t \in ThreadIds :
       LET th == threads[t]
           th2 == threads'[t]
       IN th2 # th /\ th2.pc # "dead" =>
            /\ th.pc # "boundary" /\ th2.pc = "boundary"
                 => th2.i > Len(th2.notes_this_loop) \/ stop_event
            /\ th.pc \in CyclePcs \ {"boundary", "boundary_stop"}
                 => th2.pc \in CyclePcs \ {"boundary_stop"}
            /\ th.pc = "boundary"
                 => th2.pc = IF ~loop_enabled THEN "report" ELSE "boundary_stop"
            /\ th.pc = "boundary_stop"
                 => IF stop_event
                    THEN th2.pc = "report" /\ th2.loop_count = th.loop_count
                    ELSE th2.pc = "pause" /\ th2.loop_count = th.loop_count + 1
            /\ th.pc = "pause" => th2.pc = "while"
            /\ th.pc = "while" /\ ~stop_event => th2.pc = "select"
            /\ th.pc # "boundary_stop" => th2.loop_count = th.loop_count]_vars

\* C21 witness: toggle_loop() has returned True during the first cycle of a
\* session, and the thread has gone past the boundary into cycle 1 before the
\* first cycle's duration has passed.
C21_Witness ==
  \E c \in callers : \E t \in ThreadIds :
    /\ ctl[c].pc = "idle" /\ ctl[c].op = "toggle_loop" /\ ctl[c].res
    /\ threads[t].pc = "sleep" /\ threads[t].loop_count = 1
    /\ Len(threads[t].notes) = 2
    /\ now < threads[t].performance_start_time + threads[t].total_loop_duration

\* C21 witness, second case: toggle_loop() has returned False and the cycle
\* in hand goes on to dispatch its second event.
C21_WitnessOff ==
  \E c \in callers : \E t \in ThreadIds :
    /\ ctl[c].pc = "idle" /\ ctl[c].op = "toggle_loop" /\ ~ctl[c].res
    /\ threads[t].pc = "press" /\ threads[t].i = 2 /\ ~loop_enabled

\* The places at which the thread reads the cancel flag (lines 81, 92, 102,
\* 107 and 114).
ReadsFlag(t) ==
  threads[t].pc \in {"while", "for", "check", "boundary_stop", "report"}

\* C22: no key is left pressed by cancellation.  Wherever the thread reads
\* the cancel flag no key is down, so a dispatch under way releases its keys
\* before the flag is noticed; and when stop() has returned after finding the
\* player running no key is down.
C22_NoKeyLeftDown ==
  /\ \A t \in ThreadIds : ReadsFlag(t) => down = {}
  /\ \A c \in callers : StopReturned(c) => down = {}

\* C22 witness: stop() has set the flag and waits in join() while the
\* dispatch holds its keys down.
C22_Witness ==
  \E c \in callers :
    /\ ctl[c].pc = "st_joining" /\ stop_event
    /\ threads[ctl[c].jt].pc = "hold" /\ down # {}

\* C23: never early, never skipped.  Every dispatcher call is made at or
\* after its target.  An event reached at or after its target goes to its
\* second cancel check without sleeping, and with the flag clear there it is
\* dispatched at once, at the instant it was reached.  The event index moves
\* on by one and only past an event that was dispatched, the for loop ends
\* early only with the cancel flag set, and a completed cycle has dispatched
\* each of its selected events once, in order.
C23_NeverEarlyNeverSkipped ==
  /\ [](\A t \in ThreadIds :
          /\ \A j \in DOMAIN threads[t].log :
               threads[t].log[j].at >= threads[t].log[j].target
          /\ CycleCompleted(t) =>
               /\ Len(threads[t].log) = Len(threads[t].notes_this_loop)
               /\ \A j \in DOMAIN threads[t].log :
                    threads[t].log[j].group = threads[t].notes_this_loop[j])
  /\ [][\A t \in ThreadIds :
          LET th == threads[t]
              th2 == threads'[t]
          IN th2 # th /\ th2.pc # "dead" =>
               /\ th.pc = "for" /\ th2.pc \in {"sleep", "check"}
                    => /\ th2.pc = "check" <=> now >= th2.target_absolute_time
                       /\ now' = now
               /\ th.pc = "check" /\ ~stop_event
                    => /\ Len(th2.log) = Len(th.log) + 1
                       /\ th2.log[Len(th2.log)].group = th.notes_this_loop[th.i]
                       /\ th2.log[Len(th2.log)].at = now
                       /\ now' = now
               /\ th.pc \in {"for", "check"} /\ th2.pc = "boundary"
                    /\ ~stop_event
                    => th.i > Len(th.notes_this_loop)
               /\ th.pc \in CyclePcs /\ th2.pc \in CyclePcs
                    => /\ th2.i \in {th.i, th.i + 1}
                       /\ th2.i = th.i + 1 => Len(th2.log) = th.i]_vars

\* C23 witness: the hold of the first dispatch overran, the second event was
\* reached after its target and is dispatched at once, late.
C23_Witness ==
  \E t \in ThreadIds :
    /\ threads[t].pc = "press" /\ Len(threads[t].log) = 2
    /\ threads[t].log[2].at > threads[t].log[2].target
    /\ threads[t].log[2].at =
         threads[t].log[1].at + 2 * ActuatorPauseMs + HoldMs + LateMs

\* C24: pre-roll and cancellation check-points.  No dispatcher call is made
\* before the thread's start plus 3 s, and none before the thread has its
\* plan.  A dispatcher call is made only in a step in which the cancel flag is
\* clear; a flag that is set while a thread is alive stays set until that
\* thread clears it at line 119; and with the flag set each check-point takes
\* its exit (line 81 to the report, lines 92 and 102 to the boundary, line 107
\* to the report), so neither the event in hand nor a later one is dispatched.
C24_CheckPoints ==
  /\ [](\A t \in ThreadIds :
          /\ \A j \in DOMAIN threads[t].log :
               threads[t].log[j].at >= threads[t].begin + PreRollMs
          /\ ~Planned(t) => threads[t].log = << >>)
  /\ [][\A t \in ThreadIds :
          LET th == threads[t]
              th2 == threads'[t]
          IN /\ Len(th2.log) > Len(th.log) => ~stop_event
             /\ stop_event /\ is_alive(t) /\ th.pc # "clear" => stop_event'
             /\ stop_event /\ th2 # th =>
                  /\ th.pc = "while" => th2.pc = "report"
                  /\ th.pc \in {"for", "check"} => th2.pc = "boundary"
                  /\ th.pc = "boundary" => th2.pc \in {"boundary_stop", "report"}
                  /\ th.pc = "boundary_stop" => th2.pc = "report"]_vars

\* C24 witness: stop() was issued during the pre-roll of a session of a score
\* with notes; the thread has left its loop at the instant its pre-roll ended,
\* without a dispatch, and stop() waits for it in join().
C24_Witness ==
  \E c \in callers :
    LET th == threads[ctl[c].jt]
    IN /\ ctl[c].pc = "st_joining" /\ stop_event
       /\ th.pc = "report" /\ th.notes # << >> /\ th.log = << >>
       /\ th.loop_count = 0 /\ th.notes_this_loop = << >>
       /\ now = th.begin + PreRollMs

\* The thread is in cycle loop_count: it has passed line 81 for it.
EnteredCycle(t) == threads[t].pc = "select" \/ InCycle(t)

\* C25: the loop never runs ahead of the timeline.  A thread that is in
\* cycle n >= 1 is there no earlier than T0 + (n-1)*cycleDuration.
C25_NoSpin ==
  \A t \in ThreadIds :
    EnteredCycle(t) /\ threads[t].loop_count >= 1 =>
      now >= threads[t].performance_start_time
               + (threads[t].loop_count - 1) * threads[t].total_loop_duration

\* C26: for a score with notes the cycle duration is a positive whole number
\* of measures (times bpm: num_measures * 240000) and is greater than the last
\* offset of the score, so that the targets of a cycle all lie before the
\* targets of the next.
C26_DurationExceedsLastOffset ==
  \A t \in ThreadIds :
    Planned(t) /\ RawNotes(t) # << >> =>
      /\ threads[t].num_measures > 0
      /\ threads[t].total_loop_duration * BpmOf(t)
           = threads[t].num_measures * MeasureMsTimesBpm
      /\ threads[t].total_loop_duration > LastOffset(RawNotes(t))

\* Context c is inside a stop() call that has set the cancel flag and has
\* not yet returned from join() (lines 141-142).
Stopping(c) == ctl[c].op = "stop" /\ ctl[c].pc \in {"st_join", "st_joining"}

\* C27: a cancel request never leaks into a later session.  The step that
\* starts a session's thread is taken with the cancel flag clear; while a
\* thread is alive the flag is set only during a stop() call that is under
\* way, which the one control context has made after starting that session;
\* and a thread has found the flag set on leaving its loop only during such a
\* call.
C27_NoLeak ==
  /\ [][\A c \in callers :
          ctl[c].pc = "ps_start" /\ ctl'[c].pc = "idle"
            /\ ctl'[c].ret = "started"
            => ~stop_event /\ ~stop_event']_vars
  /\ [](\A t \in ThreadIds :
          /\ is_alive(t) /\ stop_event => \E c \in callers : Stopping(c)
          /\ threads[t].outcome = "stopped" => \E c \in callers : Stopping(c))

\* C27 witness: an earlier stop() returned leaving the cancel flag set, its
\* session is over, and an accepted play_score() is about to clear the flag
\* (line 129).
C27_Witness ==
  \E c \in callers :
    /\ ctl[c].op = "play_score" /\ ctl[c].pc = "ps_clear"
    /\ stop_event /\ Alive = {} /\ playing_thread = 0

====
